---- MODULE Spec2Model ----
(***************************************************************************)
(* Model of the multi-device sync coordination contract                    *)
(* (contracts/src/syncCoordination.rs).  The contract's instance storage   *)
(* is the state; every public entry point is one atomic action.  A panic   *)
(* aborts the invocation: the host discards every write of the call, so a  *)
(* panicking call leaves the storage as it found it.                       *)
(***************************************************************************)
EXTENDS Integers, Sequences, FiniteSets, TLC

\* ---------------------------------------------------------------- bounds
\* behaviours of at most MaxSteps invocations and ledger closes are explored
MaxSteps == 5

\* ---------------------------------------------------------------- inputs
Users == {"alice", "bob"}
Address == Users \cup {"admin"}
AdminArgs == {"admin", "alice"}
DeviceType == {"Mobile", "Desktop", "Tablet", "Web"}
DeviceTypeArgs == {"Mobile"}
NameArgs == {"Phone"}
CapabilityArgs == {<<"read">>}
NewCapabilityArgs == {<<"write">>}
\* (data_type, data_hash, payload) of a submission; a payload is a string,
\* kept as the sequence of its pieces so that it can be concatenated
DataArgs == {<<"progress", "h1", <<"p1">> >>, <<"progress", "h2", <<"p2">> >>,
             <<"settings", "h1", <<"p1">> >>}
\* (success, error_message) of a completion
CompletionArgs == {<<TRUE, <<>> >>, <<TRUE, <<"Network timeout">> >>,
                   <<FALSE, <<"Network timeout">> >>}
SyncStatus == {"Pending", "InProgress", "Completed", "Failed", "Conflict"}
ConflictResolution ==
    {"LastWriteWins", "ManualReview", "MergeData", "FirstWriteWins", "TimestampWins"}

\* Option<T>: None is the empty tuple, Some(v) is <<v>>.
None == <<>>
Some(v) == <<v>>
IsSome(opt) == opt # <<>>
UnwrapOr(opt, default) == IF opt = <<>> THEN default ELSE opt[1]

\* format!("<kind>_{}", n): the kind and the number, kept apart.
FormatId(kind, n) == <<kind, n>>


VARIABLES
    Admin,          \* SyncCoordinationKey::Admin          Option<Address>
    DeviceCount,    \* SyncCoordinationKey::DeviceCount    Option<u64>
    EntryCount,     \* SyncCoordinationKey::EntryCount     Option<u64>
    ConflictCount,  \* SyncCoordinationKey::ConflictCount  Option<u64>
    SessionCount,   \* SyncCoordinationKey::SessionCount   Option<u64>
    Devices,        \* SyncCoordinationKey::Device(id)       -> Device
    SyncEntries,    \* SyncCoordinationKey::SyncEntry(id)    -> SyncEntry
    SyncConflicts,  \* SyncCoordinationKey::SyncConflict(id) -> SyncConflict
    SyncSessions,   \* SyncCoordinationKey::SyncSession(id)  -> SyncSession
    UserDevices,    \* SyncCoordinationKey::UserDevices(user) -> Vec<String>
    now,            \* env.ledger().timestamp()
    ret,            \* the last invocation: entry point, panic text, returned id
    submitted,      \* history: per session, the successful submissions made to it
    steps           \* history: the number of steps taken

storage == <<Admin, DeviceCount, EntryCount, ConflictCount, SessionCount,
             Devices, SyncEntries, SyncConflicts, SyncSessions, UserDevices>>
vars == <<Admin, DeviceCount, EntryCount, ConflictCount, SessionCount,
          Devices, SyncEntries, SyncConflicts, SyncSessions, UserDevices,
          now, ret, submitted, steps>>

\* env.storage().instance().set(key, value) on one keyed collection
Put_Mut(map, key, value) == [k \in {key} |-> value]
Put(map, key, value) ==
    [k \in (DOMAIN map) \cup {key} |-> IF k = key THEN value ELSE map[k]]

EmptyMap == [k \in {} |-> None]

\* The outcome of an invocation, as its caller sees it.
Outcome(op, err, val) == [op |-> op, err |-> err, val |-> val]

\* panic!(msg): the invocation aborts and none of its writes is kept.
Panic(op, msg) ==
    /\ ret' = Outcome(op, msg, None)
    /\ UNCHANGED <<storage, now, submitted>>

Init ==
    /\ Admin = None
    /\ DeviceCount = None
    /\ EntryCount = None
    /\ ConflictCount = None
    /\ SessionCount = None
    /\ Devices = EmptyMap
    /\ SyncEntries = EmptyMap
    /\ SyncConflicts = EmptyMap
    /\ SyncSessions = EmptyMap
    /\ UserDevices = [u \in {} |-> <<>>]
    /\ now = 0
    /\ ret = Outcome("deploy", "", None)
    /\ submitted = [s \in {} |-> 0]
    /\ steps = 0

Step == steps < MaxSteps /\ steps' = steps + 1

\* The ledger closes and the next one carries a later timestamp.
Tick ==
    /\ Step
    /\ now' = now + 1
    /\ ret' = Outcome("tick", "", None)
    /\ UNCHANGED <<storage, submitted>>

\* ------------------------------------------------------------ initialize
\* env.storage().instance().has(&SyncCoordinationKey::Admin)
HasAdmin_Mut == FALSE
HasAdmin == IsSome(Admin)

initialize(admin) ==
    IF HasAdmin
    THEN Panic("initialize", "Contract already initialized")
    ELSE /\ Admin' = Some(admin)
         /\ DeviceCount' = Some(0)
         /\ EntryCount' = Some(0)
         /\ ConflictCount' = Some(0)
         /\ SessionCount' = Some(0)
         /\ ret' = Outcome("initialize", "", None)
         /\ UNCHANGED <<Devices, SyncEntries, SyncConflicts, SyncSessions,
                        UserDevices, now, submitted>>

\* -------------------------------------------------------------- queries
get_device_count == UnwrapOr(DeviceCount, 0)
get_entry_count == UnwrapOr(EntryCount, 0)
get_conflict_count == UnwrapOr(ConflictCount, 0)
get_session_count == UnwrapOr(SessionCount, 0)

get_user_devices(user_address) ==
    IF user_address \in DOMAIN UserDevices THEN UserDevices[user_address] ELSE <<>>

\* ------------------------------------------------------- register_device
NewDevice_Mut(device_id, user_address, device_type, name, capabilities, timestamp) ==
    [id |-> device_id, user_address |-> user_address, device_type |-> device_type,
     name |-> name, last_sync |-> 0, is_active |-> TRUE,
     capabilities |-> capabilities, created_at |-> timestamp,
     last_seen |-> timestamp, sync_version |-> 0]
NewDevice(device_id, user_address, device_type, name, capabilities, timestamp) ==
    [id |-> device_id, user_address |-> user_address, device_type |-> device_type,
     name |-> name, last_sync |-> 0, is_active |-> TRUE,
     capabilities |-> capabilities, created_at |-> timestamp,
     last_seen |-> timestamp, sync_version |-> 1]

register_device(user_address, device_type, name, capabilities) ==
    LET device_count == UnwrapOr(DeviceCount, 0)
        device_id == FormatId("device", device_count + 1)
        device == NewDevice(device_id, user_address, device_type, name,
                            capabilities, now)
    IN  /\ Devices' = Put(Devices, device_id, device)
        /\ DeviceCount' = Some(device_count + 1)
        /\ UserDevices' = Put(UserDevices, user_address,
                              Append(get_user_devices(user_address), device_id))
        /\ ret' = Outcome("register_device", "", device_id)
        /\ UNCHANGED <<Admin, EntryCount, ConflictCount, SessionCount,
                       SyncEntries, SyncConflicts, SyncSessions, now, submitted>>

\* ---------------------------------------------------- start_sync_session
NewSession(session_id, user_address, device_id, timestamp) ==
    [id |-> session_id, user_address |-> user_address, device_id |-> device_id,
     started_at |-> timestamp, completed_at |-> None, status |-> "InProgress",
     entries_synced |-> 0, conflicts_resolved |-> 0, error_message |-> None]

\* history: a session just created has no submission counted against it
Opened(hist, session_id) == Put(hist, session_id, [ok |-> 0, conflicts |-> 0])

\* the guard of start_sync_session: !device.is_active panics
DeviceIsActive_Mut(device) == TRUE
DeviceIsActive_MutBusy(device) ==
    /\ device.is_active
    /\ \A sid \in DOMAIN SyncSessions :
          SyncSessions[sid].device_id = device.id
          => SyncSessions[sid].status # "InProgress"
DeviceIsActive(device) == device.is_active

\* the guard of start_sync_session: device.user_address != user_address panics
StartByOwner_Mut(device, user_address) == TRUE
StartByOwner(device, user_address) == ~(device.user_address # user_address)

start_sync_session(user_address, device_id) ==
    IF device_id \notin DOMAIN Devices
    THEN Panic("start_sync_session", "Device not found")
    ELSE LET device == Devices[device_id] IN
    IF ~StartByOwner(device, user_address)
    THEN Panic("start_sync_session", "Device does not belong to user")
    ELSE IF ~DeviceIsActive(device)
    THEN Panic("start_sync_session", "Device is not active")
    ELSE
    LET session_count == UnwrapOr(SessionCount, 0)
        session_id == FormatId("session", session_count + 1)
        session == NewSession(session_id, user_address, device_id, now)
    IN  /\ SyncSessions' = Put(SyncSessions, session_id, session)
        /\ SessionCount' = Some(session_count + 1)
        /\ Devices' = Put(Devices, device_id, [device EXCEPT !.last_seen = now])
        /\ ret' = Outcome("start_sync_session", "", session_id)
        /\ submitted' = Opened(submitted, session_id)
        /\ UNCHANGED <<Admin, DeviceCount, EntryCount, ConflictCount,
                       SyncEntries, SyncConflicts, UserDevices, now>>

\* ----------------------------------------------------- submit_sync_entry
\* check_for_conflicts: "For now, return no conflict"; it reads and writes nothing.
check_for_conflicts_Mut(user_address, data_type, data_hash, timestamp) ==
    IF \E e \in DOMAIN SyncEntries :
          /\ SyncEntries[e].user_address = user_address
          /\ SyncEntries[e].data_type = data_type
          /\ SyncEntries[e].data_hash # data_hash
    THEN Some(FormatId("conflict", get_conflict_count + 1))
    ELSE None
check_for_conflicts(user_address, data_type, data_hash, timestamp) == None

\* the guard of submit_sync_entry: session.status != InProgress panics
SubmitSessionActive_Mut(session) == session.status # "Failed"
SubmitSessionActive(session) == session.status = "InProgress"

EntryStatus_Mut(conflict_id) == "InProgress"
EntryStatus(conflict_id) == IF IsSome(conflict_id) THEN "Conflict" ELSE "Completed"

NewEntry(entry_id, session, device_id, data_type, data_hash, timestamp, conflict_id, payload) ==
    [id |-> entry_id, user_address |-> session.user_address,
     device_id |-> device_id, data_type |-> data_type, data_hash |-> data_hash,
     timestamp |-> timestamp, sync_status |-> EntryStatus(conflict_id),
     conflict_resolution |-> None, parent_entry_id |-> None,
     merged_with |-> <<>>, payload |-> payload]

\* "Update session": entries_synced += 1, conflicts_resolved += 1 on a conflict
UpdatedSession_Mut(session, conflict_id) ==
    [session EXCEPT !.entries_synced = @ + 1, !.conflicts_resolved = @ + 1]
UpdatedSession(session, conflict_id) ==
    [session EXCEPT
        !.entries_synced = @ + 1,
        !.conflicts_resolved = IF IsSome(conflict_id) THEN @ + 1 ELSE @]

\* history: one more successful submission under this session id
Counted(hist, session_id, conflict_id) ==
    LET h == IF session_id \in DOMAIN hist THEN hist[session_id]
             ELSE [ok |-> 0, conflicts |-> 0]
    IN  Put(hist, session_id,
            [ok |-> h.ok + 1,
             conflicts |-> IF IsSome(conflict_id) THEN h.conflicts + 1
                           ELSE h.conflicts])

submit_sync_entry(session_id, device_id, data_type, data_hash, payload) ==
    IF session_id \notin DOMAIN SyncSessions
    THEN Panic("submit_sync_entry", "Sync session not found")
    ELSE LET session == SyncSessions[session_id] IN
    IF ~SubmitSessionActive(session)
    THEN Panic("submit_sync_entry", "Session is not active")
    ELSE
    LET conflict_id == check_for_conflicts(session.user_address, data_type,
                                           data_hash, now)
        entry_count == UnwrapOr(EntryCount, 0)
        entry_id == FormatId("entry", entry_count + 1)
        sync_entry == NewEntry(entry_id, session, device_id, data_type,
                               data_hash, now, conflict_id, payload)
    IN  /\ SyncEntries' = Put(SyncEntries, entry_id, sync_entry)
        /\ EntryCount' = Some(entry_count + 1)
        /\ SyncSessions' = Put(SyncSessions, session_id,
                               UpdatedSession(session, conflict_id))
        /\ ret' = Outcome("submit_sync_entry", "", entry_id)
        /\ submitted' = Counted(submitted, session_id, conflict_id)
        /\ UNCHANGED <<Admin, DeviceCount, ConflictCount, SessionCount,
                       Devices, SyncConflicts, UserDevices, now>>

\* ------------------------------------------------------ resolve_conflict
\* apply_last_write_wins / apply_first_write_wins / apply_timestamp_wins
ApplyWins_Mut(entry, resolution) ==
    [entry EXCEPT !.sync_status = "Completed",
                  !.conflict_resolution = Some("LastWriteWins")]
ApplyWins(entry, resolution) ==
    [entry EXCEPT !.sync_status = "Completed",
                  !.conflict_resolution = Some(resolution)]

apply_manual_review_Mut(entry) ==
    [entry EXCEPT !.sync_status = "Completed",
                  !.conflict_resolution = Some("ManualReview")]
apply_manual_review(entry) ==
    [entry EXCEPT !.sync_status = "Pending",
                  !.conflict_resolution = Some("ManualReview")]

\* format!("{}|{}", winning.payload, other.payload)
MergedPayload(winning_payload, other_payload) == winning_payload \o <<"|">> \o other_payload

\* other_entry is always the conflict's entry_id_2
apply_merge_data(entry, other_entry, conflict) ==
    [entry EXCEPT !.payload = MergedPayload(entry.payload, other_entry.payload),
                  !.sync_status = "Completed",
                  !.conflict_resolution = Some("MergeData"),
                  !.merged_with = Append(@, conflict.entry_id_2)]

SealedConflict_Mut(conflict, resolution, winning_entry_id, resolver, timestamp) ==
    [conflict EXCEPT !.resolution = Some(resolution),
                     !.resolved_at = Some(timestamp),
                     !.winning_entry_id = Some(winning_entry_id)]
SealedConflict(conflict, resolution, winning_entry_id, resolver, timestamp) ==
    [conflict EXCEPT !.resolution = Some(resolution),
                     !.resolved_at = Some(timestamp),
                     !.resolved_by = Some(resolver),
                     !.winning_entry_id = Some(winning_entry_id)]

\* a SyncConflict record (the contract itself never builds one)
NewConflict(conflict_id, user_address, entry_id_1, entry_id_2, conflict_type, timestamp) ==
    [id |-> conflict_id, user_address |-> user_address,
     entry_id_1 |-> entry_id_1, entry_id_2 |-> entry_id_2,
     conflict_type |-> conflict_type, detected_at |-> timestamp,
     resolution |-> None, resolved_at |-> None,
     resolved_by |-> None, winning_entry_id |-> None]

\* storage get of SyncConflict(id); None makes the caller panic
get_sync_conflict_Mut(conflict_id) ==
    IF conflict_id \in DOMAIN SyncConflicts THEN Some(SyncConflicts[conflict_id])
    ELSE Some(NewConflict(conflict_id, "alice", FormatId("entry", 1),
                          FormatId("entry", 2), "data", now))
get_sync_conflict(conflict_id) ==
    IF conflict_id \in DOMAIN SyncConflicts THEN Some(SyncConflicts[conflict_id])
    ELSE None

\* "Verify resolver is authorized (admin or conflict owner)"
ResolverAuthorized_Mut(resolver, admin, conflict) == TRUE
ResolverAuthorized(resolver, admin, conflict) ==
    ~(resolver # admin /\ resolver # conflict.user_address)

\* the writes of a resolve_conflict that returns: the winning entry by the
\* policy's apply_* function, then the sealed conflict
ResolveWrites(conflict_id, conflict, resolution, winning_entry_id, resolver) ==
    LET winning_entry == SyncEntries[winning_entry_id]
        updated_entry ==
            CASE resolution \in {"LastWriteWins", "FirstWriteWins", "TimestampWins"} ->
                    ApplyWins(winning_entry, resolution)
              [] resolution = "ManualReview" -> apply_manual_review(winning_entry)
              [] resolution = "MergeData" ->
                    apply_merge_data(winning_entry,
                                     SyncEntries[conflict.entry_id_2], conflict)
    IN  /\ SyncEntries' = Put(SyncEntries, winning_entry_id, updated_entry)
        /\ SyncConflicts' = Put(SyncConflicts, conflict_id,
                                SealedConflict(conflict, resolution,
                                               winning_entry_id, resolver, now))
        /\ ret' = Outcome("resolve_conflict", "", None)
        /\ UNCHANGED <<Admin, DeviceCount, EntryCount, ConflictCount,
                       SessionCount, Devices, SyncSessions, UserDevices, now,
                       submitted>>

\* the entries that the policy's apply_* function loads are stored
EntriesFound(conflict, resolution, winning_entry_id) ==
    /\ winning_entry_id \in DOMAIN SyncEntries
    /\ resolution = "MergeData" => conflict.entry_id_2 \in DOMAIN SyncEntries

\* "Apply resolution strategy", then "Update conflict record": get_sync_entry
\* inside apply_* panics before anything is written
ApplyAndSeal_Mut(conflict_id, conflict, resolution, winning_entry_id, resolver) ==
    IF ~EntriesFound(conflict, resolution, winning_entry_id)
    THEN /\ SyncConflicts' = Put(SyncConflicts, conflict_id,
                                 SealedConflict(conflict, resolution,
                                                winning_entry_id, resolver, now))
         /\ ret' = Outcome("resolve_conflict", "Sync entry not found", None)
         /\ UNCHANGED <<Admin, DeviceCount, EntryCount, ConflictCount,
                        SessionCount, Devices, SyncEntries, SyncSessions,
                        UserDevices, now, submitted>>
    ELSE ResolveWrites(conflict_id, conflict, resolution, winning_entry_id, resolver)
ApplyAndSeal(conflict_id, conflict, resolution, winning_entry_id, resolver) ==
    IF ~EntriesFound(conflict, resolution, winning_entry_id)
    THEN Panic("resolve_conflict", "Sync entry not found")
    ELSE ResolveWrites(conflict_id, conflict, resolution, winning_entry_id, resolver)

resolve_conflict(conflict_id, resolution, winning_entry_id, resolver) ==
    IF ~IsSome(get_sync_conflict(conflict_id))
    THEN Panic("resolve_conflict", "Sync conflict not found")
    ELSE LET conflict == get_sync_conflict(conflict_id)[1] IN
    IF ~IsSome(Admin)
    THEN Panic("resolve_conflict", "Admin not found")
    ELSE IF ~ResolverAuthorized(resolver, Admin[1], conflict)
    THEN Panic("resolve_conflict",
               "Not authorized to resolve this conflict")
    ELSE ApplyAndSeal(conflict_id, conflict, resolution, winning_entry_id, resolver)

\* ------------------------------------------------- complete_sync_session
\* the guard of complete_sync_session and the text it panics with
CompleteSessionActive(session) == session.status = "InProgress"
CompleteNotActiveMessage == "Session is not in progress"

CompletedSession_Mut(session, success, error_message, timestamp) ==
    [session EXCEPT !.completed_at = Some(timestamp),
                    !.status = "Completed",
                    !.error_message = error_message]
CompletedSession(session, success, error_message, timestamp) ==
    [session EXCEPT !.completed_at = Some(timestamp),
                    !.status = IF success THEN "Completed" ELSE "Failed",
                    !.error_message = error_message]

\* "Update device last sync": runs whatever `success` is
SyncedDevice(device, success, timestamp) ==
    [device EXCEPT !.last_sync = timestamp, !.sync_version = @ + 1]

complete_sync_session(session_id, success, error_message) ==
    IF session_id \notin DOMAIN SyncSessions
    THEN Panic("complete_sync_session", "Sync session not found")
    ELSE LET session == SyncSessions[session_id] IN
    IF ~CompleteSessionActive(session)
    THEN Panic("complete_sync_session", CompleteNotActiveMessage)
    ELSE IF session.device_id \notin DOMAIN Devices
    THEN Panic("complete_sync_session", "Device not found")
    ELSE
        /\ SyncSessions' = Put(SyncSessions, session_id,
                               CompletedSession(session, success, error_message, now))
        /\ Devices' = Put(Devices, session.device_id,
                          SyncedDevice(Devices[session.device_id], success, now))
        /\ ret' = Outcome("complete_sync_session", "", None)
        /\ UNCHANGED <<Admin, DeviceCount, EntryCount, ConflictCount,
                       SessionCount, SyncEntries, SyncConflicts, UserDevices,
                       now, submitted>>

\* ----------------------------------------------------- deactivate_device
DeactivatedDevice_Mut(device, timestamp) ==
    [device EXCEPT !.is_active = FALSE]
DeactivatedDevice(device, timestamp) ==
    [device EXCEPT !.is_active = FALSE, !.last_seen = timestamp]

deactivate_device(user_address, device_id) ==
    IF device_id \notin DOMAIN Devices
    THEN Panic("deactivate_device", "Device not found")
    ELSE LET device == Devices[device_id] IN
    IF device.user_address # user_address
    THEN Panic("deactivate_device", "Device does not belong to user")
    ELSE
        /\ Devices' = Put(Devices, device_id, DeactivatedDevice(device, now))
        /\ ret' = Outcome("deactivate_device", "", None)
        /\ UNCHANGED <<Admin, DeviceCount, EntryCount, ConflictCount,
                       SessionCount, SyncEntries, SyncConflicts, SyncSessions,
                       UserDevices, now, submitted>>

\* -------------------------------------------- update_device_capabilities
WithCapabilities_Mut(device, capabilities, timestamp) ==
    [device EXCEPT !.capabilities = @ \o capabilities,
                   !.last_seen = timestamp]
WithCapabilities(device, capabilities, timestamp) ==
    [device EXCEPT !.capabilities = capabilities,
                   !.last_seen = timestamp]

update_device_capabilities(user_address, device_id, capabilities) ==
    IF device_id \notin DOMAIN Devices
    THEN Panic("update_device_capabilities", "Device not found")
    ELSE LET device == Devices[device_id] IN
    IF device.user_address # user_address
    THEN Panic("update_device_capabilities",
               "Device does not belong to user")
    ELSE
        /\ Devices' = Put(Devices, device_id,
                          WithCapabilities(device, capabilities, now))
        /\ ret' = Outcome("update_device_capabilities", "", None)
        /\ UNCHANGED <<Admin, DeviceCount, EntryCount, ConflictCount,
                       SessionCount, SyncEntries, SyncConflicts, SyncSessions,
                       UserDevices, now, submitted>>

\* ------------------------------------------------------------ the system
\* identities a caller may name: the stored ones and one that is not stored
DeviceIdArgs == (DOMAIN Devices) \cup {FormatId("device", 0)}
SessionIdArgs == (DOMAIN SyncSessions) \cup {FormatId("session", 0)}
EntryIdArgs == (DOMAIN SyncEntries) \cup {FormatId("entry", 0)}
ConflictIdArgs == (DOMAIN SyncConflicts) \cup {FormatId("conflict", 1)}

Initialize == Step /\ \E admin \in AdminArgs : initialize(admin)

RegisterDevice ==
    /\ Step
    /\ \E user \in Users, device_type \in DeviceTypeArgs, name \in NameArgs,
          capabilities \in CapabilityArgs :
            register_device(user, device_type, name, capabilities)

StartSyncSession ==
    /\ Step
    /\ \E user \in Users, device_id \in DeviceIdArgs :
            start_sync_session(user, device_id)

SubmitSyncEntry ==
    /\ Step
    /\ \E session_id \in SessionIdArgs, device_id \in DeviceIdArgs,
          data \in DataArgs :
            submit_sync_entry(session_id, device_id, data[1], data[2], data[3])

ResolveConflict ==
    /\ Step
    /\ \E conflict_id \in ConflictIdArgs, resolution \in ConflictResolution,
          winning_entry_id \in EntryIdArgs, resolver \in Address :
            resolve_conflict(conflict_id, resolution, winning_entry_id, resolver)

CompleteSyncSession ==
    /\ Step
    /\ \E session_id \in SessionIdArgs, completion \in CompletionArgs :
            complete_sync_session(session_id, completion[1], completion[2])

DeactivateDevice ==
    /\ Step
    /\ \E user \in Users, device_id \in DeviceIdArgs :
            deactivate_device(user, device_id)

UpdateDeviceCapabilities ==
    /\ Step
    /\ \E user \in Users, device_id \in DeviceIdArgs,
          capabilities \in NewCapabilityArgs :
            update_device_capabilities(user, device_id, capabilities)

Next ==
    \/ Tick
    \/ Initialize
    \/ RegisterDevice
    \/ StartSyncSession
    \/ SubmitSyncEntry
    \/ ResolveConflict
    \/ CompleteSyncSession
    \/ DeactivateDevice
    \/ UpdateDeviceCapabilities

Spec == Init /\ [][Next]_vars

\* ------------------------------------------- the store with a conflict
\* No entry point of the contract writes a SyncConflict (check_for_conflicts
\* returns None), so resolve_conflict is exercised from the store that the
\* detector of the design (section 4.3) leaves after initialize,
\* register_device, start_sync_session and the submissions of
\* ("progress", "h1") and ("progress", "h2") in one session: entry_1 Completed,
\* entry_2 Conflict, and conflict_1 of type "data" referencing both.  The
\* design does not say which entry is entry_id_1, so both orders are drawn.
SeedDevice == NewDevice(FormatId("device", 1), "alice", "Mobile", "Phone", <<"read">>, 0)

SeedSession ==
    [NewSession(FormatId("session", 1), "alice", FormatId("device", 1), 0)
        EXCEPT !.entries_synced = 2, !.conflicts_resolved = 1]

SeedEntry(n, data_hash, payload, conflict_id) ==
    NewEntry(FormatId("entry", n), SeedSession, FormatId("device", 1),
             "progress", data_hash, 0, conflict_id, payload)

SeedConflict(first, second) ==
    NewConflict(FormatId("conflict", 1), "alice", first, second, "data", 0)

InitConflict ==
    /\ Admin = Some("admin")
    /\ DeviceCount = Some(1)
    /\ EntryCount = Some(2)
    /\ ConflictCount = Some(1)
    /\ SessionCount = Some(1)
    /\ Devices = Put(EmptyMap, FormatId("device", 1), SeedDevice)
    /\ SyncSessions = Put(EmptyMap, FormatId("session", 1), SeedSession)
    /\ SyncEntries =
          Put(Put(EmptyMap, FormatId("entry", 1), SeedEntry(1, "h1", <<"p1">>, None)),
              FormatId("entry", 2),
              SeedEntry(2, "h2", <<"p2">>, Some(FormatId("conflict", 1))))
    /\ \E order \in {<<1, 2>>, <<2, 1>>} :
          SyncConflicts = Put(EmptyMap, FormatId("conflict", 1),
                              SeedConflict(FormatId("entry", order[1]),
                                           FormatId("entry", order[2])))
    /\ UserDevices = Put(EmptyMap, "alice", <<FormatId("device", 1)>>)
    /\ now = 0
    /\ ret = Outcome("submit_sync_entry", "", FormatId("entry", 2))
    /\ submitted = Put(EmptyMap, FormatId("session", 1), [ok |-> 2, conflicts |-> 1])
    \* MaxSteps - 3 further steps are explored from this store
    /\ steps = 3

SpecConflict == InitConflict /\ [][Next]_vars

\* ================================================================ claims
Terminal == {"Completed", "Failed"}

\* the fields of a session record that submission and completion write
SessionFields(session) ==
    <<session.status, session.completed_at, session.error_message,
      session.entries_synced, session.conflicts_resolved>>

\* C1: once the session stored under an identity is Completed or Failed, no
\* step changes its status, completed_at, error_message, entries_synced or
\* conflicts_resolved, and the record stays in the store.
C1_TerminalSessionImmutable ==
    [][\A sid \in DOMAIN SyncSessions :
          SyncSessions[sid].status \in Terminal =>
              /\ sid \in DOMAIN SyncSessions'
              /\ SessionFields(SyncSessions'[sid]) = SessionFields(SyncSessions[sid])
      ]_vars

\* C2: complete_sync_session on a session that is already Completed or Failed
\* fails with the text "Session is not active" and leaves the session and
\* its device as they were.
C2_CompleteTwiceNotActive ==
    [][\A sid \in DOMAIN SyncSessions, completion \in CompletionArgs :
          ( /\ SyncSessions[sid].status \in Terminal
            /\ complete_sync_session(sid, completion[1], completion[2]) )
          => /\ ret'.err = "Session is not active"
             /\ SyncSessions' = SyncSessions
             /\ Devices' = Devices
      ]_vars

\* the sessions of a device that are stored as completed with success
SuccessfulCompletions(device_id) ==
    {sid \in DOMAIN SyncSessions :
        /\ SyncSessions[sid].device_id = device_id
        /\ SyncSessions[sid].status = "Completed"}

\* C3: every device's sync_version is 1 plus the number of its sessions that
\* were completed with success.
C3_SyncVersionCountsSuccesses ==
    \A device_id \in DOMAIN Devices :
        Devices[device_id].sync_version =
            1 + Cardinality(SuccessfulCompletions(device_id))

\* C4: a completion with success = false marks the session Failed and leaves
\* every Device record as it was.
C4_FailedCompletionKeepsDevice ==
    [][\A sid \in DOMAIN SyncSessions, completion \in CompletionArgs :
          ( /\ ~completion[1]
            /\ complete_sync_session(sid, completion[1], completion[2])
            /\ ret'.err = "" )
          => /\ SyncSessions'[sid].status = "Failed"
             /\ Devices' = Devices
      ]_vars

\* C5: submit_sync_entry on a session whose status is not InProgress fails
\* with "Session is not active", stores no entry, does not advance EntryCount
\* and leaves every session record as it was.
C5_SubmitNeedsActiveSession ==
    [][\A sid \in DOMAIN SyncSessions, device_id \in DeviceIdArgs,
          data \in DataArgs :
          ( /\ SyncSessions[sid].status # "InProgress"
            /\ submit_sync_entry(sid, device_id, data[1], data[2], data[3]) )
          => /\ ret'.err = "Session is not active"
             /\ SyncEntries' = SyncEntries
             /\ EntryCount' = EntryCount
             /\ SyncSessions' = SyncSessions
      ]_vars

\* a submission has just been refused on a session that is no longer open
C5_Witness ==
    /\ ret.op = "submit_sync_entry"
    /\ ret.err = "Session is not active"
    /\ \E sid \in DOMAIN SyncSessions : SyncSessions[sid].status \in Terminal

\* the stored entries of the logical record (user, data_type) that a detector
\* compares a new submission with: those with status Completed or Conflict
RecordEntries(user_address, data_type) ==
    {e \in DOMAIN SyncEntries :
        /\ SyncEntries[e].user_address = user_address
        /\ SyncEntries[e].data_type = data_type
        /\ SyncEntries[e].sync_status \in {"Completed", "Conflict"}}

\* e was submitted after f: a later timestamp, or the same one and a later id
SubmittedAfter(e, f) ==
    \/ SyncEntries[e].timestamp > SyncEntries[f].timestamp
    \/ /\ SyncEntries[e].timestamp = SyncEntries[f].timestamp
       /\ e[2] > f[2]

MostRecent(entries) ==
    CHOOSE e \in entries : \A f \in entries \ {e} : SubmittedAfter(e, f)

\* a conflict record of type "data" between entries e and f is created by the step
ConflictCreated(e, f) ==
    \E c \in (DOMAIN SyncConflicts') \ (DOMAIN SyncConflicts) :
        /\ {SyncConflicts'[c].entry_id_1, SyncConflicts'[c].entry_id_2} = {e, f}
        /\ SyncConflicts'[c].conflict_type = "data"

\* C6: a successful submission whose logical record has a most recent
\* Completed/Conflict entry with another fingerprint creates a SyncConflict
\* of type "data" referencing both entries; otherwise it creates no conflict.
C6_DetectorCreatesConflict ==
    [][\A sid \in DOMAIN SyncSessions, device_id \in DeviceIdArgs,
          data \in DataArgs :
          ( /\ submit_sync_entry(sid, device_id, data[1], data[2], data[3])
            /\ ret'.err = "" )
          => LET prior == RecordEntries(SyncSessions[sid].user_address, data[1])
             IN  IF prior # {} /\ SyncEntries[MostRecent(prior)].data_hash # data[2]
                 THEN ConflictCreated(MostRecent(prior), ret'.val)
                 ELSE SyncConflicts' = SyncConflicts
      ]_vars

\* C7: a successful submission adds exactly 1 to the session's
\* entries_synced; if the detector reported a conflict the new entry is stored
\* as Conflict and conflicts_resolved grows by 1, otherwise the entry is stored
\* as Completed and conflicts_resolved keeps its value.
C7_SubmitCounts ==
    [][\A sid \in DOMAIN SyncSessions, device_id \in DeviceIdArgs,
          data \in DataArgs :
          ( /\ submit_sync_entry(sid, device_id, data[1], data[2], data[3])
            /\ ret'.err = "" )
          => LET before == SyncSessions[sid]
                 after == SyncSessions'[sid]
                 entry == SyncEntries'[ret'.val]
                 detected == IsSome(check_for_conflicts(before.user_address,
                                                        data[1], data[2], now))
             IN  /\ after.entries_synced = before.entries_synced + 1
                 /\ IF detected
                    THEN /\ entry.sync_status = "Conflict"
                         /\ after.conflicts_resolved = before.conflicts_resolved + 1
                    ELSE /\ entry.sync_status = "Completed"
                         /\ after.conflicts_resolved = before.conflicts_resolved
      ]_vars

\* a second submission to one session has just succeeded
C7_Witness ==
    /\ ret.op = "submit_sync_entry"
    /\ ret.err = ""
    /\ ret.val \in DOMAIN SyncEntries
    /\ SyncEntries[ret.val].sync_status = "Completed"
    /\ \E sid \in DOMAIN SyncSessions : SyncSessions[sid].entries_synced = 2

\* the state of the end-to-end scenario after its first submission: one
\* device at sync_version 1, one open session on it, and in the log only the
\* entry ("progress", "h1"), stored as Completed
AfterFirstSubmission(sid, e1) ==
    /\ DOMAIN Devices = {SyncSessions[sid].device_id}
    /\ Devices[SyncSessions[sid].device_id].sync_version = 1
    /\ DOMAIN SyncSessions = {sid}
    /\ SyncSessions[sid].status = "InProgress"
    /\ SyncSessions[sid].entries_synced = 1
    /\ DOMAIN SyncEntries = {e1}
    /\ SyncEntries[e1].user_address = SyncSessions[sid].user_address
    /\ SyncEntries[e1].data_type = "progress"
    /\ SyncEntries[e1].data_hash = "h1"
    /\ SyncEntries[e1].sync_status = "Completed"

\* C8: in the end-to-end scenario the submission of ("progress", "h2") after
\* ("progress", "h1") in the same session stores its entry as Conflict and
\* creates a SyncConflict referencing both entries; resolving a conflict with
\* LastWriteWins seals it and sets the winning entry to Completed; and the
\* successful completion of the session takes sync_version from 1 to 2.
C8_EndToEnd ==
    [][/\ \A sid \in DOMAIN SyncSessions, e1 \in DOMAIN SyncEntries,
            device_id \in DeviceIdArgs :
            ( /\ AfterFirstSubmission(sid, e1)
              /\ submit_sync_entry(sid, device_id, "progress", "h2", <<"p2">>)
              /\ ret'.err = "" )
            => /\ SyncEntries'[ret'.val].sync_status = "Conflict"
               /\ SyncEntries'[e1].sync_status = "Completed"
               /\ ConflictCreated(e1, ret'.val)
       /\ \A c \in DOMAIN SyncConflicts, e2 \in DOMAIN SyncEntries,
            resolver \in Address :
            ( /\ resolve_conflict(c, "LastWriteWins", e2, resolver)
              /\ ret'.err = "" )
            => /\ SyncConflicts'[c].resolution = Some("LastWriteWins")
               /\ SyncConflicts'[c].winning_entry_id = Some(e2)
               /\ SyncEntries'[e2].sync_status = "Completed"
       /\ \A sid \in DOMAIN SyncSessions :
            ( /\ DOMAIN SyncSessions = {sid}
              /\ Devices[SyncSessions[sid].device_id].sync_version = 1
              /\ complete_sync_session(sid, TRUE, None)
              /\ ret'.err = "" )
            => Devices'[SyncSessions[sid].device_id].sync_version = 2
      ]_vars

\* the submission concluded "no conflict": stored Completed, never resolved
NoConflictConcluded(entry) ==
    entry.sync_status = "Completed" /\ entry.conflict_resolution = None

\* C9: when a session that has submitted nothing yet submits to a logical
\* record whose only entry, made through another session, has a different
\* fingerprint and was stored as "no conflict", the later entry is stored
\* with status Conflict: the two submissions never both conclude "no conflict".
C9_NotBothNoConflict ==
    [][\A sid \in DOMAIN SyncSessions, e1 \in DOMAIN SyncEntries,
          device_id \in DeviceIdArgs, data \in DataArgs :
          ( /\ SyncSessions[sid].entries_synced = 0
            /\ RecordEntries(SyncSessions[sid].user_address, data[1]) = {e1}
            /\ SyncEntries[e1].data_hash # data[2]
            /\ NoConflictConcluded(SyncEntries[e1])
            /\ submit_sync_entry(sid, device_id, data[1], data[2], data[3])
            /\ ret'.err = "" )
          => /\ SyncEntries'[ret'.val].sync_status = "Conflict"
             /\ ~( NoConflictConcluded(SyncEntries'[e1])
                   /\ NoConflictConcluded(SyncEntries'[ret'.val]) )
      ]_vars

\* C10: a session to which N submissions succeeded, none with a conflict
\* detected, has entries_synced = N and conflicts_resolved = 0.
C10_CountersMatchSubmissions ==
    \A sid \in DOMAIN SyncSessions :
        submitted[sid].conflicts = 0 =>
            /\ SyncSessions[sid].entries_synced = submitted[sid].ok
            /\ SyncSessions[sid].conflicts_resolved = 0

\* two submissions went to one session while another session was open too
C10_Witness ==
    \E sid \in DOMAIN SyncSessions :
        /\ submitted[sid].ok = 2
        /\ submitted[sid].conflicts = 0
        /\ SyncSessions[sid].entries_synced = 2
        /\ \E other \in DOMAIN SyncSessions : other # sid

\* the four fields that resolve_conflict seals
ResolutionFields(conflict) ==
    <<conflict.resolution, conflict.resolved_at, conflict.resolved_by,
      conflict.winning_entry_id>>

\* the entries a caller may name as winner in the store with a conflict
WinnerArgs == EntryIdArgs

SealedOrOpen(conflict) ==
    \/ ResolutionFields(conflict) = <<None, None, None, None>>
    \/ /\ IsSome(conflict.resolution) /\ IsSome(conflict.resolved_at)
       /\ IsSome(conflict.resolved_by) /\ IsSome(conflict.winning_entry_id)

ConflictEntries(conflict) == {conflict.entry_id_1, conflict.entry_id_2}
LosingEntry(conflict, w) ==
    IF w = conflict.entry_id_1 THEN conflict.entry_id_2 ELSE conflict.entry_id_1

\* how many times an id occurs in a merged_with list
Occurrences(list, id) == Cardinality({i \in DOMAIN list : list[i] = id})

OthersUnchanged(e) ==
    /\ DOMAIN SyncEntries' = DOMAIN SyncEntries
    /\ \A o \in DOMAIN SyncEntries \ {e} : SyncEntries'[o] = SyncEntries[o]

ListsOwnDevices(user_address) ==
    LET list == get_user_devices(user_address) IN
    /\ \A i, j \in DOMAIN list : list[i] = list[j] => i = j
    /\ {list[i] : i \in DOMAIN list} =
          {d \in DOMAIN Devices : Devices[d].user_address = user_address}

\* C18: register_device returns an id that no earlier registration returned
\* (every returned id stays a key of the device store), appends it to the
\* user's list, and each user's list then holds that user's device ids, each
\* exactly once.
C18_FreshDeviceIds ==
    [][\A user_address \in Users, device_type \in DeviceTypeArgs,
          name \in NameArgs, capabilities \in CapabilityArgs :
          register_device(user_address, device_type, name, capabilities)
          => /\ ret'.val \notin DOMAIN Devices
             /\ get_user_devices(user_address)' =
                    Append(get_user_devices(user_address), ret'.val)
             /\ \A u \in Users : ListsOwnDevices(u)'
      ]_vars

\* C19: register_device always returns; it stores under the returned id a
\* device of the user that is active, has sync_version 1, last_sync 0 and the
\* given type, name and capabilities, and it raises the device count by one.
\* A name that a stored device already has is accepted like any other.
C19_RegisterCreatesDevice ==
    [][\A user_address \in Users, device_type \in DeviceTypeArgs,
          name \in NameArgs, capabilities \in CapabilityArgs :
          register_device(user_address, device_type, name, capabilities)
          => /\ ret'.err = ""
             /\ ret'.val \in DOMAIN Devices'
             /\ LET device == Devices'[ret'.val] IN
                /\ device.user_address = user_address
                /\ device.is_active
                /\ device.sync_version = 1
                /\ device.last_sync = 0
                /\ device.device_type = device_type
                /\ device.name = name
                /\ device.capabilities = capabilities
             /\ get_device_count' = get_device_count + 1
      ]_vars

\* a registration has just returned and two stored devices have one name
C19_Witness ==
    /\ ret.op = "register_device"
    /\ ret.err = ""
    /\ \E d, e \in DOMAIN Devices : d # e /\ Devices[d].name = Devices[e].name

\* nothing that start_sync_session writes has changed
StartWroteNothing ==
    /\ SyncSessions' = SyncSessions
    /\ SessionCount' = SessionCount
    /\ Devices' = Devices

\* C20 as stated: start_sync_session on a deactivated device panics "Device
\* is not active" for every caller, and creates no session, leaves
\* SessionCount and leaves the device (its last_seen included) as they were.
C20_InactiveForEveryCaller ==
    [][\A user_address \in Users, device_id \in DOMAIN Devices :
          ( /\ ~Devices[device_id].is_active
            /\ start_sync_session(user_address, device_id) )
          => /\ ret'.err = "Device is not active"
             /\ StartWroteNothing
      ]_vars

\* C20 amended: start_sync_session on a deactivated device fails for every
\* caller and writes nothing; it panics "Device is not active" when the
\* caller is the device's user and "Device does not belong to user" otherwise.
C20_InactiveDeviceRefused ==
    [][\A user_address \in Users, device_id \in DOMAIN Devices :
          ( /\ ~Devices[device_id].is_active
            /\ start_sync_session(user_address, device_id) )
          => /\ ret'.err = IF user_address = Devices[device_id].user_address
                           THEN "Device is not active"
                           ELSE "Device does not belong to user"
             /\ StartWroteNothing
      ]_vars

\* the owner of a deactivated device has just been refused a session
C20_Witness ==
    /\ ret.op = "start_sync_session"
    /\ ret.err = "Device is not active"
    /\ \E d \in DOMAIN Devices : ~Devices[d].is_active

\* C21: start_sync_session by a user other than the device's user panics
\* "Device does not belong to user", whether the device is active or not,
\* creates no session and changes no device.
C21_StartByStranger ==
    [][\A user_address \in Users, device_id \in DOMAIN Devices :
          ( /\ Devices[device_id].user_address # user_address
            /\ start_sync_session(user_address, device_id) )
          => /\ ret'.err = "Device does not belong to user"
             /\ StartWroteNothing
      ]_vars

\* a user has just been refused a session on a device of someone else
C21_Witness ==
    /\ ret.op = "start_sync_session"
    /\ ret.err = "Device does not belong to user"
    /\ Devices # EmptyMap

\* C22: a start_sync_session that returns stores, under an id that no stored
\* session has, an InProgress session of the given user and device with both
\* counters 0 and completed_at and error_message unset; it sets the device's
\* last_seen to the current time and changes no other device field, and it
\* raises the session count by one.
C22_StartCreatesSession ==
    [][\A user_address \in Users, device_id \in DOMAIN Devices :
          (start_sync_session(user_address, device_id) /\ ret'.err = "")
          => /\ ret'.val \notin DOMAIN SyncSessions
             /\ ret'.val \in DOMAIN SyncSessions'
             /\ LET session == SyncSessions'[ret'.val] IN
                /\ session.status = "InProgress"
                /\ session.entries_synced = 0
                /\ session.conflicts_resolved = 0
                /\ session.completed_at = None
                /\ session.error_message = None
                /\ session.user_address = user_address
                /\ session.device_id = device_id
             /\ Devices' = Put(Devices, device_id,
                               [Devices[device_id] EXCEPT !.last_seen = now])
             /\ get_session_count' = get_session_count + 1
      ]_vars

\* the device has a session that is still open
HasOpenSession(device_id) ==
    \E sid \in DOMAIN SyncSessions :
        /\ SyncSessions[sid].device_id = device_id
        /\ SyncSessions[sid].status = "InProgress"

\* the sessions other than sid are stored as they were
OtherSessionsUnchanged(sid) ==
    \A other \in DOMAIN SyncSessions \ {sid} :
        /\ other \in DOMAIN SyncSessions'
        /\ SyncSessions'[other] = SyncSessions[other]

\* C23: start_sync_session by the owner of an active device returns although
\* the device has open sessions, and a submit_sync_entry or
\* complete_sync_session on one session leaves every other session as it was.
C23_SessionsIndependent ==
    [][ /\ \A user_address \in Users, device_id \in DOMAIN Devices :
              ( /\ Devices[device_id].user_address = user_address
                /\ Devices[device_id].is_active
                /\ HasOpenSession(device_id)
                /\ start_sync_session(user_address, device_id) )
              => ret'.err = ""
        /\ \A sid \in SessionIdArgs, device_id \in DeviceIdArgs, data \in DataArgs :
              submit_sync_entry(sid, device_id, data[1], data[2], data[3])
              => OtherSessionsUnchanged(sid)
        /\ \A sid \in SessionIdArgs, completion \in CompletionArgs :
              complete_sync_session(sid, completion[1], completion[2])
              => OtherSessionsUnchanged(sid)
      ]_vars

\* a device has two open sessions and an entry has just been submitted in
\* one of them, the other still counting none
C23_Witness ==
    /\ ret.op = "submit_sync_entry"
    /\ ret.err = ""
    /\ \E s, t \in DOMAIN SyncSessions :
          /\ s # t
          /\ SyncSessions[s].device_id = SyncSessions[t].device_id
          /\ SyncSessions[s].status = "InProgress"
          /\ SyncSessions[t].status = "InProgress"
          /\ SyncSessions[s].entries_synced = 1
          /\ SyncSessions[t].entries_synced = 0

\* C24: a complete_sync_session that returns sets the session's status to
\* Completed when success is true and to Failed when it is false, sets
\* completed_at to the current time and, on failure, stores the message given.
C24_CompletionOutcome ==
    [][\A sid \in DOMAIN SyncSessions, completion \in CompletionArgs :
          ( /\ SyncSessions[sid].status = "InProgress"
            /\ complete_sync_session(sid, completion[1], completion[2])
            /\ ret'.err = "" )
          => /\ SyncSessions'[sid].status =
                    IF completion[1] THEN "Completed" ELSE "Failed"
             /\ SyncSessions'[sid].completed_at = Some(now)
             /\ ~completion[1] => SyncSessions'[sid].error_message = completion[2]
      ]_vars

\* a session has just been completed as failed and holds the message
C24_Witness ==
    /\ ret.op = "complete_sync_session"
    /\ ret.err = ""
    /\ \E sid \in DOMAIN SyncSessions :
          /\ SyncSessions[sid].status = "Failed"
          /\ SyncSessions[sid].completed_at = Some(now)
          /\ SyncSessions[sid].error_message = Some("Network timeout")

\* C25: after a complete_sync_session with success = true that returns, the
\* session's error_message is unset, whatever message the caller gave.
C25_MessageIgnoredOnSuccess ==
    [][\A sid \in DOMAIN SyncSessions, completion \in CompletionArgs :
          ( /\ completion[1]
            /\ complete_sync_session(sid, completion[1], completion[2])
            /\ ret'.err = "" )
          => SyncSessions'[sid].error_message = None
      ]_vars

\* C26: deactivate_device panics "Device not found" for an id that is not
\* stored and "Device does not belong to user" for a caller who is not the
\* device's user, writing nothing in both cases; otherwise it returns, sets
\* is_active to false and last_seen to the current time, and leaves every
\* other field of the device, every other device and the users' lists alone.
C26_Deactivate ==
    [][\A user_address \in Users, device_id \in DeviceIdArgs :
          deactivate_device(user_address, device_id)
          => IF device_id \notin DOMAIN Devices
             THEN ret'.err = "Device not found" /\ UNCHANGED storage
             ELSE IF Devices[device_id].user_address # user_address
             THEN ret'.err = "Device does not belong to user" /\ UNCHANGED storage
             ELSE /\ ret'.err = ""
                  /\ Devices' = Put(Devices, device_id,
                                    [Devices[device_id] EXCEPT !.is_active = FALSE,
                                                               !.last_seen = now])
                  /\ UserDevices' = UserDevices
      ]_vars

\* a device has just been deactivated, at a time later than its last_seen
\* was before, and is still in its user's list
C26_Witness ==
    /\ ret.op = "deactivate_device"
    /\ ret.err = ""
    /\ \E d \in DOMAIN Devices :
          /\ ~Devices[d].is_active
          /\ Devices[d].last_seen = now
          /\ Devices[d].created_at < now
          /\ \E i \in DOMAIN get_user_devices(Devices[d].user_address) :
                get_user_devices(Devices[d].user_address)[i] = d

\* C27: update_device_capabilities panics "Device does not belong to user"
\* for a caller who is not the device's user and writes nothing; otherwise it
\* returns, makes the given list the device's capabilities, sets last_seen to
\* the current time and leaves is_active, sync_version and last_sync alone.
C27_UpdateCapabilities ==
    [][\A user_address \in Users, device_id \in DOMAIN Devices,
          capabilities \in NewCapabilityArgs :
          update_device_capabilities(user_address, device_id, capabilities)
          => IF Devices[device_id].user_address # user_address
             THEN ret'.err = "Device does not belong to user" /\ UNCHANGED storage
             ELSE /\ ret'.err = ""
                  /\ Devices' = Put(Devices, device_id,
                                    [Devices[device_id] EXCEPT !.capabilities = capabilities,
                                                               !.last_seen = now])
      ]_vars

\* a device registered with <<"read">> has just been given <<"write">>
C27_Witness ==
    /\ ret.op = "update_device_capabilities"
    /\ ret.err = ""
    /\ \E d \in DOMAIN Devices : Devices[d].capabilities = <<"write">>

\* the operations that C28 names
StoreOperations ==
    {"register_device", "start_sync_session", "submit_sync_entry",
     "resolve_conflict", "complete_sync_session"}

C29_DevicesNeverRemoved ==
    [][ /\ \A d \in DOMAIN Devices : d \in DOMAIN Devices'
        /\ \A user_address \in Users, device_type \in DeviceTypeArgs,
              name \in NameArgs, capabilities \in CapabilityArgs :
              register_device(user_address, device_type, name, capabilities)
              => ret'.val \in DOMAIN Devices'
        /\ \A user_address \in Users, device_id \in DeviceIdArgs :
              (deactivate_device(user_address, device_id) /\ ret'.err = "")
              => /\ device_id \in DOMAIN Devices'
                 /\ ~Devices'[device_id].is_active
      ]_vars

\* a device was deactivated, another has been registered since, and both
\* are stored
C29_Witness ==
    /\ ret.op = "register_device"
    /\ \E d \in DOMAIN Devices :
          /\ ~Devices[d].is_active
          /\ d # ret.val
          /\ ret.val \in DOMAIN Devices

\* C30: initialize on a contract that has no admin stores the admin and sets
\* the four counters to 0; on a contract that has one it panics "Contract
\* already initialized" and writes nothing; and no step changes or removes
\* a stored admin, so initialize returns at most once.
C30_InitializeOnce ==
    [][ /\ IsSome(Admin) => Admin' = Admin
        /\ \A admin \in AdminArgs :
              initialize(admin)
              => IF IsSome(Admin)
                 THEN /\ ret'.err = "Contract already initialized"
                      /\ UNCHANGED storage
                 ELSE /\ ret'.err = ""
                      /\ Admin' = Some(admin)
                      /\ DeviceCount' = Some(0)
                      /\ EntryCount' = Some(0)
                      /\ ConflictCount' = Some(0)
                      /\ SessionCount' = Some(0)
      ]_vars

\* a second initialize has just been refused
C30_Witness ==
    /\ ret.op = "initialize"
    /\ ret.err = "Contract already initialized"
    /\ IsSome(Admin)

\* the fields of an entry that are fixed when it is submitted
SubmittedFields(entry) ==
    <<entry.id, entry.user_address, entry.device_id, entry.data_type,
      entry.data_hash, entry.timestamp, entry.parent_entry_id>>

\* C31: no step deletes a stored entry or changes its id, user, device_id,
\* data_type, data_hash, timestamp or parent_entry_id, and a step that is not
\* a resolve_conflict (a submit_sync_entry in particular) leaves every stored
\* entry as it was.
C31_EntryLogAppendOnly ==
    [][\A e \in DOMAIN SyncEntries :
          /\ e \in DOMAIN SyncEntries'
          /\ SubmittedFields(SyncEntries'[e]) = SubmittedFields(SyncEntries[e])
          /\ ret'.op # "resolve_conflict" => SyncEntries'[e] = SyncEntries[e]
      ]_vars

\* C32: each counter equals the number of records of its kind, and the id
\* that a register_device, start_sync_session or submit_sync_entry has just
\* returned is "<kind>_k" where k is the number of records of that kind.
C32_SequentialIds ==
    /\ get_device_count = Cardinality(DOMAIN Devices)
    /\ get_session_count = Cardinality(DOMAIN SyncSessions)
    /\ get_entry_count = Cardinality(DOMAIN SyncEntries)
    /\ (ret.op = "register_device" /\ ret.err = "")
         => ret.val = FormatId("device", Cardinality(DOMAIN Devices))
    /\ (ret.op = "start_sync_session" /\ ret.err = "")
         => ret.val = FormatId("session", Cardinality(DOMAIN SyncSessions))
    /\ (ret.op = "submit_sync_entry" /\ ret.err = "")
         => ret.val = FormatId("entry", Cardinality(DOMAIN SyncEntries))

\* C33: when a session has been started and is then completed with
\* success = true, the device's last_sync is greater than its last_seen.
C33_LastSyncAfterLastSeen ==
    [][\A sid \in DOMAIN SyncSessions, completion \in CompletionArgs :
          ( /\ completion[1]
            /\ complete_sync_session(sid, completion[1], completion[2])
            /\ ret'.err = "" )
          => LET device == Devices'[SyncSessions[sid].device_id]
             IN  device.last_sync > device.last_seen
      ]_vars

\* the operations that mint an identity from a counter
MintOperations == {"register_device", "start_sync_session", "submit_sync_entry"}

\* C34: no step lowers the device, session or entry count, and the id that
\* register_device, start_sync_session or submit_sync_entry returns is not
\* the id of a record stored before the call.
C34_CountersNeverDecrease ==
    [][ /\ get_device_count' >= get_device_count
        /\ get_session_count' >= get_session_count
        /\ get_entry_count' >= get_entry_count
        /\ (ret'.op \in MintOperations /\ ret'.err = "")
             => ret'.val \notin (DOMAIN Devices \cup DOMAIN SyncSessions
                                   \cup DOMAIN SyncEntries)
      ]_vars

C36_EntryDeviceIsSessionDevice ==
    [][\A sid \in DOMAIN SyncSessions, device_id \in DeviceIdArgs,
          data \in DataArgs :
          ( /\ submit_sync_entry(sid, device_id, data[1], data[2], data[3])
            /\ ret'.err = "" )
          => LET entry == SyncEntries'[ret'.val] IN
             /\ entry.device_id = SyncSessions[sid].device_id
             /\ entry.device_id \in DOMAIN Devices
             /\ Devices[entry.device_id].user_address = entry.user_address
      ]_vars

C38_OpenSessionCompletes ==
    [][ /\ \A sid \in DOMAIN SyncSessions, completion \in CompletionArgs :
              ( /\ SyncSessions[sid].status = "InProgress"
                /\ complete_sync_session(sid, completion[1], completion[2]) )
              => /\ ret'.err = ""
                 /\ SyncSessions'[sid].status \in Terminal
        /\ \A sid \in DOMAIN SyncSessions' :
              SyncSessions'[sid].status = "InProgress"
              => /\ SyncSessions'[sid].device_id \in DOMAIN Devices'
                 /\ Devices'[SyncSessions'[sid].device_id].user_address =
                        SyncSessions'[sid].user_address
      ]_vars

\* the session is open and its device is stored and deactivated
OpenOnInactiveDevice(sid) ==
    /\ SyncSessions[sid].status = "InProgress"
    /\ SyncSessions[sid].device_id \in DOMAIN Devices
    /\ ~Devices[SyncSessions[sid].device_id].is_active

\* C39: deactivate_device leaves the sessions as they were; an InProgress
\* session of a deactivated device still accepts submit_sync_entry and
\* complete_sync_session, and a completion with success = true raises the
\* device's sync_version by one and leaves it inactive; and no step makes
\* active again a device id whose record is inactive.
C39_InactiveDeviceSessions ==
    [][ /\ ret'.op = "deactivate_device" => SyncSessions' = SyncSessions
        /\ \A sid \in DOMAIN SyncSessions :
              OpenOnInactiveDevice(sid)
              => /\ \A device_id \in DeviceIdArgs, data \in DataArgs :
                       submit_sync_entry(sid, device_id, data[1], data[2], data[3])
                       => ret'.err = ""
                 /\ \A completion \in CompletionArgs :
                       complete_sync_session(sid, completion[1], completion[2])
                       => /\ ret'.err = ""
                          /\ LET d == SyncSessions[sid].device_id IN
                             /\ completion[1] =>
                                   Devices'[d].sync_version = Devices[d].sync_version + 1
                             /\ ~Devices'[d].is_active
        /\ \A d \in DOMAIN Devices :
              ~Devices[d].is_active => ~Devices'[d].is_active
      ]_vars

\* the sum of entries_synced over the sessions with ids in S
RECURSIVE SumEntriesSynced(_)
SumEntriesSynced(S) ==
    IF S = {} THEN 0
    ELSE LET sid == CHOOSE x \in S : TRUE
         IN  SyncSessions[sid].entries_synced + SumEntriesSynced(S \ {sid})

\* C40: each session has conflicts_resolved <= entries_synced and has
\* completed_at set exactly when it is Completed or Failed, and the
\* entries_synced of all sessions add up to the number of stored entries.
C40_SessionAccounting ==
    /\ \A sid \in DOMAIN SyncSessions :
          /\ SyncSessions[sid].conflicts_resolved <= SyncSessions[sid].entries_synced
          /\ IsSome(SyncSessions[sid].completed_at)
                <=> SyncSessions[sid].status \in Terminal
    /\ SumEntriesSynced(DOMAIN SyncSessions) = Cardinality(DOMAIN SyncEntries)

====
